---- MODULE Spec2Model ----
(***************************************************************************)
(* ml_things/plot_functions.py: plot_array, plot_dict and                  *)
(* plot_confusion_matrix, together with the part of the state of the       *)
(* plotting library (matplotlib.pyplot) and of the file system that the    *)
(* three functions read and write.                                         *)
(*                                                                         *)
(* Python's None is the string "None".  Lengths are in hundredths of an    *)
(* inch, so that the default magnify=1.2 stays an integer computation.     *)
(***************************************************************************)
EXTENDS Integers, Sequences, FiniteSets, TLC

VARIABLES
    backend,    \* "agg": headless, plt.show() leaves the figure; "gui": plt.show() displays and closes it
    style,      \* the style sheet last applied with plt.style.use (rcParams)
    fig,        \* pyplot's current figure
    files,      \* the image files on disk
    ncalls,     \* calls made so far
    pre,        \* style, fig and files as they were when the last call began
    call,       \* the last call: the function and its arguments
    out,        \* how the last call ended: the exception raised, or "None"
    ret,        \* the value the last call returned
    log,        \* the library calls the last call made, in order
    clean       \* no call so far has raised

vars == <<backend, style, fig, files, ncalls, pre, call, out, ret, log, clean>>

None == "None"

\* ------------------------------------------------------------ bounds

MaxCalls == 2       \* calls to plot_array / plot_dict in one run
MaxLen == 3         \* longest y_true / y_pred

\* ---------------------------------------------- the plotting library

\* plt.style.available, cut down to two names.
StyleAvailable == {"ggplot", "classic"}

\* rcParams["figure.figsize"] under the active style: classic sets 8x6.
DefaultFigsize(s) == IF s = "classic" THEN <<800, 600>> ELSE <<640, 480>>

NoFigure ==
    [open |-> FALSE, lines |-> <<>>, size |-> <<0, 0>>, title |-> None,
     xlabel |-> None, ylabel |-> None, grid |-> FALSE, legend |-> FALSE,
     image |-> <<>>, xticklabels |-> <<>>, yticklabels |-> <<>>]

NewFigure(s) == [NoFigure EXCEPT !.open = TRUE, !.size = DefaultFigsize(s)]

\* plt.subplot(1, 2, 1): the axes of the current figure when there is one,
\* a new figure with new axes otherwise.
Subplot(f, s) == IF f.open THEN f ELSE NewFigure(s)

\* plt.show(): a gui backend displays the figures and destroys them when
\* the windows close; the headless backend leaves them where they are.
AfterShow(f) == IF backend = "gui" THEN NoFigure ELSE f

\* fig.savefig(path, dpi): the file at path is replaced.
SaveFile(fs, path, dpi) == {x \in fs : x.path # path} \cup {[path |-> path, dpi |-> dpi]}

Snapshot == [style |-> style, fig |-> fig, files |-> files]

\* ------------------------------------------------ plot_array, plot_dict

linestyles == <<"-", "--", "-.", ":">>

Range(s) == {s[i] : i \in 1..Len(s)}

\* not isinstance(array, list) or isinstance(array, np.ndarray)
ArrayRejected(array) == ~(array.kind = "list") \/ array.kind = "ndarray"

LineStyleUnchecked(use_linestyle) == TRUE

LineStyleOk(use_linestyle) == use_linestyle \in Range(linestyles)

\* np.array(range(1, len(array) + 1)) * step_size
Steps(array, step_size) == [i \in 1..Len(array.data) |-> i * step_size]

\* figsize = [figsize[0] * width, figsize[1] * height]
ScaledSize(figsize, width, height) == <<figsize[1] * width, figsize[2] * height>>

SaveRequested(path) == path # None

ShowAlways(show_plot) == TRUE

ShowRequested(show_plot) == show_plot = TRUE

Line(x, y, ls, label) == [x |-> x, y |-> y, linestyle |-> ls, label |-> label]

\* The common tail of plot_array and plot_dict, from plt.title to plt.show,
\* applied to the figure f the lines were drawn on; legend says whether
\* plt.legend is called.
Decorate(f, a, legend) ==
    LET g == [f EXCEPT !.title = a.use_title, !.xlabel = a.use_xlabel,
                       !.ylabel = a.use_ylabel, !.grid = a.use_grid,
                       !.legend = (@ \/ legend),
                       !.size = ScaledSize(@, a.width, a.height)]
    IN  [fig   |-> IF ShowRequested(a.show_plot) THEN AfterShow(g) ELSE g,
         files |-> IF SaveRequested(a.path) THEN SaveFile(files, a.path, a.use_dpi) ELSE files,
         log   |-> <<[op |-> "title", text |-> a.use_title],
                     [op |-> "xlabel", text |-> a.use_xlabel],
                     [op |-> "ylabel", text |-> a.use_ylabel]>>
                   \o (IF legend THEN <<[op |-> "legend"]>> ELSE <<>>)
                   \o <<[op |-> "grid", on |-> a.use_grid],
                        [op |-> "tight_layout"],
                        [op |-> "set_size_inches", size |-> g.size]>>
                   \o (IF SaveRequested(a.path)
                       THEN <<[op |-> "savefig", path |-> a.path, dpi |-> a.use_dpi]>>
                       ELSE <<>>)
                   \o (IF ShowRequested(a.show_plot) THEN <<[op |-> "show"]>> ELSE <<>>)]

\* A call that raises: exc with message msg, after the library calls in l.
Raise(exc, msg, s, f, l) ==
    /\ out' = [exc |-> exc, msg |-> msg]
    /\ ret' = None
    /\ style' = s
    /\ fig' = f
    /\ log' = l
    /\ UNCHANGED files

UseStyle(s) == [op |-> "style.use", name |-> s]

\* The body of plot_array for the arguments a.
PlotArrayBody(a) ==
    IF ArrayRejected(a.array)
    THEN Raise("ValueError", "array", style, fig, <<>>)
    ELSE IF a.style_sheet \notin StyleAvailable
    THEN Raise("ValueError", "style_sheet", style, fig, <<>>)
    ELSE IF ~LineStyleOk(a.use_linestyle)
    THEN Raise("ValueError", "linestyle", a.style_sheet, fig, <<UseStyle(a.style_sheet)>>)
    ELSE LET f0 == Subplot(fig, a.style_sheet)
             f1 == [f0 EXCEPT !.lines = Append(@, Line(Steps(a.array, a.step_size), a.array.data,
                                                       a.use_linestyle, a.use_label))]
             d  == Decorate(f1, a, a.use_label # None)
         IN  /\ out' = [exc |-> None, msg |-> None]
             /\ ret' = None
             /\ style' = a.style_sheet
             /\ fig' = d.fig
             /\ files' = d.files
             /\ log' = <<UseStyle(a.style_sheet), [op |-> "subplot"],
                         [op |-> "plot", line |-> f1.lines[Len(f1.lines)]]>> \o d.log

\* ------------------------------------------------------------ plot_dict

\* use_linestyles = ['-'] * len(dict_arrays) when it is None
EffectiveLineStyles(dict_arrays, use_linestyles) ==
    IF use_linestyles.none
    THEN [i \in 1..Len(dict_arrays.items) |-> "-"]
    ELSE use_linestyles.list

\* The first entry of the dictionary that fails the format check, 0 if none.
RECURSIVE FirstBadItem(_, _)
FirstBadItem(items, i) ==
    IF i > Len(items) THEN 0
    ELSE IF items[i].keykind # "str" \/ ArrayRejected(items[i].value) THEN i
    ELSE FirstBadItem(items, i + 1)

\* for index, (use_label, array) in enumerate(dict_arrays.items()): the
\* figure and the library calls after the series from position i on are
\* plotted; use_linestyles[index] raises IndexError past the end of the list.
RECURSIVE PlotSeries(_, _, _, _, _, _)
PlotSeries(f, l, items, styles, step_size, i) ==
    IF i > Len(items) THEN [fig |-> f, log |-> l, exc |-> None]
    ELSE IF i > Len(styles) THEN [fig |-> f, log |-> l, exc |-> "IndexError"]
    ELSE LET ln == Line(Steps(items[i].value, step_size), items[i].value.data,
                        styles[i], items[i].key)
         IN  PlotSeries([f EXCEPT !.lines = Append(@, ln)],
                        Append(l, [op |-> "plot", line |-> ln]),
                        items, styles, step_size, i + 1)

\* The body of plot_dict for the arguments a.
PlotDictBody(a) ==
    IF a.dict_arrays.kind # "dict"
    THEN Raise("ValueError", "dict_arrays", style, fig, <<>>)
    ELSE IF FirstBadItem(a.dict_arrays.items, 1) # 0
    THEN Raise("ValueError",
               IF a.dict_arrays.items[FirstBadItem(a.dict_arrays.items, 1)].keykind # "str"
               THEN "keys" ELSE "values",
               style, fig, <<>>)
    ELSE IF a.style_sheet \notin StyleAvailable
    THEN Raise("ValueError", "style_sheet", style, fig, <<>>)
    ELSE IF ~a.use_linestyles.none
            /\ \E i \in 1..Len(a.use_linestyles.list) : ~LineStyleOk(a.use_linestyles.list[i])
    THEN Raise("ValueError", "linestyle", a.style_sheet, fig, <<UseStyle(a.style_sheet)>>)
    ELSE LET p == PlotSeries(Subplot(fig, a.style_sheet),
                             <<UseStyle(a.style_sheet), [op |-> "subplot"]>>,
                             a.dict_arrays.items,
                             EffectiveLineStyles(a.dict_arrays, a.use_linestyles),
                             a.step_size, 1)
             d == Decorate(p.fig, a, TRUE)
         IN  IF p.exc # None
             THEN Raise(p.exc, "use_linestyles[index]", a.style_sheet, p.fig, p.log)
             ELSE /\ out' = [exc |-> None, msg |-> None]
                  /\ ret' = None
                  /\ style' = a.style_sheet
                  /\ fig' = d.fig
                  /\ files' = d.files
                  /\ log' = p.log \o d.log

\* ------------------------------------------------ plot_confusion_matrix

Min(S) == CHOOSE x \in S : \A y \in S : x <= y

\* The elements of a finite set of integers in ascending order.
RECURSIVE Sorted(_)
Sorted(S) == IF S = {} THEN <<>> ELSE <<Min(S)>> \o Sorted(S \ {Min(S)})

\* label_to_ind of sklearn's confusion_matrix
IndexOf(labels, v) == CHOOSE i \in 1..Len(labels) : labels[i] = v

\* coo_matrix((sample_weight, (y_true, y_pred))).toarray(): one is added at
\* (row of y_true[k], column of y_pred[k]) for every sample k.
RECURSIVE Accumulate(_, _, _, _, _)
Accumulate(cm, labels, y_true, y_pred, k) ==
    IF k > Len(y_true) THEN cm
    ELSE Accumulate([cm EXCEPT ![IndexOf(labels, y_true[k])][IndexOf(labels, y_pred[k])] = @ + 1],
                    labels, y_true, y_pred, k + 1)

\* sklearn.metrics.confusion_matrix(y_true, y_pred) with labels=None: the
\* labels are the sorted distinct values of both arrays.
confusion_matrix(y_true, y_pred) ==
    LET labels == Sorted(Range(y_true) \cup Range(y_pred))
        n == Len(labels)
    IN  Accumulate([i \in 1..n |-> [j \in 1..n |-> 0]], labels, y_true, y_pred, 1)

ComputedMatrixSwapped(y_true, y_pred) == confusion_matrix(y_pred, y_true)

\* cm = confusion_matrix(y_true, y_pred)
ComputedMatrix(y_true, y_pred) == confusion_matrix(y_true, y_pred)

RECURSIVE SumSeq(_)
SumSeq(s) == IF s = <<>> THEN 0 ELSE Head(s) + SumSeq(Tail(s))

\* A float quotient num / den kept exact; den = 0 is the nan of 0.0 / 0.
Quotient(num, den) == [num |-> num, den |-> den]

\* the division by the column sums, cm.sum(axis=0)
NormalizedByColumn(cm) ==
    [i \in 1..Len(cm) |->
        [j \in 1..Len(cm[i]) |->
            Quotient(cm[i][j], SumSeq([r \in 1..Len(cm) |-> cm[r][j]]))]]

\* cm.astype('float') / cm.sum(axis=1)[:, np.newaxis]
Normalized(cm) ==
    [i \in 1..Len(cm) |-> [j \in 1..Len(cm[i]) |-> Quotient(cm[i][j], SumSeq(cm[i]))]]

\* classes = list(classes); classes = set(y_true) when that is empty.  The
\* names are what the axis shows: str() of each label.
TickLabels(classes, y_true) ==
    IF classes # <<>> THEN classes
    ELSE LET l == Sorted(Range(y_true)) IN [i \in 1..Len(l) |-> ToString(l[i])]

ClassesUnchecked(classes, y_true) == TRUE

\* assert len(set(y_true)) == len(classes), made only for given classes
ClassesAssertion(classes, y_true) ==
    classes # <<>> => Cardinality(Range(y_true)) = Len(classes)

LengthShorter(y_true, y_pred) == Len(y_true) < Len(y_pred)

LengthMismatch(y_true, y_pred) == Len(y_true) # Len(y_pred)

\* if not title: the title follows normalize
Title(title, normalize) ==
    IF title # None /\ title # "" THEN title
    ELSE IF normalize THEN "Normalized confusion matrix"
    ELSE "Confusion matrix, without normalization"

Magnify10 == 12     \* magnify=1.2, in tenths

\* fig.set_size_inches(figsize * magnify)
Magnified(figsize) == <<(figsize[1] * Magnify10) \div 10, (figsize[2] * Magnify10) \div 10>>

\* The body of plot_confusion_matrix for the arguments a.  Two steps depend
\* on the installed libraries, and both outcomes are kept: zero samples are
\* refused by the metrics library or give an empty matrix that fails later,
\* at cm.max(); tick labels whose number differs from the number of ticks
\* are refused by the plotting library or, by older releases, accepted.
PlotConfusionMatrixBody(a) ==
    IF LengthMismatch(a.y_true, a.y_pred)
    THEN Raise("ValueError", "length", style, fig, <<>>)
    ELSE IF ~ClassesAssertion(a.classes, a.y_true)
    THEN Raise("AssertionError", "classes", style, fig, <<>>)
    ELSE LET classes == TickLabels(a.classes, a.y_true)
             counts == ComputedMatrix(a.y_true, a.y_pred)
             cm == IF a.normalize THEN Normalized(counts) ELSE counts
             f0 == [NewFigure(style) EXCEPT !.image = cm]
             l0 == <<[op |-> "confusion_matrix"], [op |-> "subplots"], [op |-> "imshow"],
                     [op |-> "colorbar"],
                     [op |-> "set", xticks |-> Len(cm), yticks |-> Len(cm),
                      xticklabels |-> classes, yticklabels |-> classes,
                      title |-> Title(a.title, a.normalize)]>>
             f1 == [f0 EXCEPT !.xticklabels = classes, !.yticklabels = classes,
                              !.title = Title(a.title, a.normalize),
                              !.xlabel = "Predicted label", !.ylabel = "True label"]
             f2 == [f1 EXCEPT !.size = Magnified(@)]
             saved == a.image # None /\ a.image # ""
             Returns ==
                 /\ out' = [exc |-> None, msg |-> None]
                 /\ ret' = cm
                 /\ style' = style
                 /\ fig' = f2
                 /\ files' = IF saved THEN SaveFile(files, a.image, a.dpi) ELSE files
                 /\ log' = l0 \o <<[op |-> "set_size_inches", size |-> f2.size]>>
                           \o (IF saved
                               THEN <<[op |-> "savefig", path |-> a.image, dpi |-> a.dpi]>>
                               ELSE <<>>)
         IN  IF Len(a.y_true) # Len(a.y_pred)
             THEN \* check_consistent_length inside confusion_matrix
                  Raise("ValueError", "confusion_matrix", style, fig, <<[op |-> "confusion_matrix"]>>)
             ELSE IF a.y_true = <<>>
             THEN \/ Raise("ValueError", "confusion_matrix", style, fig, <<[op |-> "confusion_matrix"]>>)
                  \/ Raise("ValueError", "cm.max", style, f1, l0)
             ELSE IF Len(classes) # Len(cm)
             THEN \/ Raise("ValueError", "ticklabels", style, f0, l0)
                  \/ Returns
             ELSE Returns

\* ----------------------------------------------------------- inputs

ArrayInputs ==
    { [kind |-> "list", data |-> <<3, 1>>],
      [kind |-> "ndarray", data |-> <<3, 1>>],
      [kind |-> "int", data |-> <<>>] }

StyleInputs == StyleAvailable \cup {"bogus"}

LineStyleInputs == {"-", "--", "dotted"}

\* The options that are only handed on: the defaults of the signature, the
\* defaults without plt.show(), and every option set to something else.
Defaults ==
    [step_size |-> 1, use_label |-> None, use_title |-> None, use_xlabel |-> None,
     use_ylabel |-> None, use_grid |-> TRUE, width |-> 3, height |-> 1,
     use_dpi |-> 20, path |-> None, show_plot |-> TRUE]

OptionInputs ==
    { Defaults,
      [Defaults EXCEPT !.show_plot = FALSE],
      [step_size |-> 2, use_label |-> "loss", use_title |-> "T", use_xlabel |-> "X",
       use_ylabel |-> "Y", use_grid |-> FALSE, width |-> 1, height |-> 2,
       use_dpi |-> 100, path |-> "a.png", show_plot |-> FALSE] }

Series(key, keykind, kind, data) ==
    [key |-> key, keykind |-> keykind, value |-> [kind |-> kind, data |-> data]]

DictInputs ==
    { [kind |-> "dict", items |-> <<Series("a", "str", "list", <<3, 1>>),
                                    Series("b", "str", "list", <<2>>)>>],
      [kind |-> "dict", items |-> <<Series("a", "str", "list", <<3, 1>>),
                                    Series("7", "int", "list", <<2>>)>>],
      [kind |-> "dict", items |-> <<Series("a", "str", "ndarray", <<3, 1>>)>>],
      [kind |-> "list", items |-> <<>>] }

LineStylesInputs ==
    { [none |-> TRUE, list |-> <<>>],
      [none |-> FALSE, list |-> <<"--">>],
      [none |-> FALSE, list |-> <<"--", ":">>],
      [none |-> FALSE, list |-> <<"--", "dotted">>] }

\* plot_dict has no use_label: the labels are the keys.
DictOptions(o) == [k \in DOMAIN o \ {"use_label"} |-> o[k]]

Labels == {0, 1, 2}

ExampleTrue == <<0, 1, 1, 0>>
ExamplePred == <<0, 1, 0, 0>>

LabelArrays == UNION {[1..n -> Labels] : n \in 0..MaxLen}

ClassesInputs == {<<>>, <<"x", "y">>, <<"x", "y", "z">>}

CMCalls ==
    { [fn |-> "plot_confusion_matrix", y_true |-> p[1], y_pred |-> p[2], classes |-> c,
       normalize |-> n, title |-> None, image |-> im, dpi |-> 50] :
         p \in (LabelArrays \X LabelArrays) \cup {<<ExampleTrue, ExamplePred>>},
         c \in ClassesInputs, n \in BOOLEAN, im \in {None, "cm.png"} }

Args(fn, o, more) == [x \in {"fn"} |-> fn] @@ o @@ more

\* ----------------------------------------------------------- actions

Begin(c) ==
    /\ ncalls < MaxCalls
    /\ ncalls' = ncalls + 1
    /\ pre' = Snapshot
    /\ call' = c
    /\ UNCHANGED backend

Ended == clean' = (clean /\ out'.exc = None)

PlotArray ==
    \E array \in ArrayInputs, ss \in StyleInputs, ls \in LineStyleInputs, o \in OptionInputs :
        LET a == Args("plot_array", o,
                      [array |-> array, style_sheet |-> ss, use_linestyle |-> ls])
        IN  Begin(a) /\ PlotArrayBody(a) /\ Ended

PlotDict ==
    \E d \in DictInputs, ss \in StyleInputs, ls \in LineStylesInputs, o \in OptionInputs :
        LET a == Args("plot_dict", DictOptions(o),
                      [dict_arrays |-> d, style_sheet |-> ss, use_linestyles |-> ls])
        IN  Begin(a) /\ PlotDictBody(a) /\ Ended

\* The pending call of InitCM is made.
PlotConfusionMatrix ==
    /\ out.exc = "pending"
    /\ PlotConfusionMatrixBody(call)
    /\ Ended
    /\ ncalls' = ncalls + 1
    /\ pre' = Snapshot
    /\ UNCHANGED <<backend, call>>

NoCall == [fn |-> "none"]

Init ==
    /\ backend \in {"agg", "gui"}
    /\ style = "default"
    /\ fig = NoFigure
    /\ files = {}
    /\ ncalls = 0
    /\ pre = [style |-> "default", fig |-> NoFigure, files |-> {}]
    /\ call = NoCall
    /\ out = [exc |-> None, msg |-> None]
    /\ ret = None
    /\ log = <<>>
    /\ clean = TRUE

Next == PlotArray \/ PlotDict

Spec == Init /\ [][Next]_vars

\* One call of plot_confusion_matrix, its arguments drawn at the start.
InitCM ==
    /\ backend = "agg"
    /\ style = "default"
    /\ fig = NoFigure
    /\ files = {}
    /\ ncalls = 0
    /\ pre = [style |-> "default", fig |-> NoFigure, files |-> {}]
    /\ call \in CMCalls
    /\ out = [exc |-> "pending", msg |-> None]
    /\ ret = None
    /\ log = <<>>
    /\ clean = TRUE

NextCM == PlotConfusionMatrix

SpecCM == InitCM /\ [][NextCM]_vars

\* ------------------------------------------------------------ properties

IsPlotCall == call.fn \in {"plot_array", "plot_dict"}
IsCMCall == call.fn = "plot_confusion_matrix" /\ out.exc # "pending"
Raised == out.exc \notin {None, "pending"}

Entries(op) == SelectSeq(log, LAMBDA e : e.op = op)
Made(op) == \E i \in 1..Len(log) : log[i].op = op

SupportedLineStyles == {"-", "--", "-.", ":"}

\* The caller's line style is unsupported: use_linestyle of plot_array, one
\* element of a given use_linestyles of plot_dict.
BadLineStyle ==
    IF call.fn = "plot_array" THEN call.use_linestyle \notin SupportedLineStyles
    ELSE /\ ~call.use_linestyles.none
         /\ \E i \in 1..Len(call.use_linestyles.list) :
                call.use_linestyles.list[i] \notin SupportedLineStyles

\* C1: a plot_confusion_matrix call with len(y_true) != len(y_pred) raises
\* ValueError, and has then computed no matrix, created no figure and saved
\* no file.
C1_MismatchedLengthsRejected ==
    (IsCMCall /\ Len(call.y_true) # Len(call.y_pred))
        => /\ out.exc = "ValueError"
           /\ log = <<>>
           /\ fig = pre.fig
           /\ files = pre.files

C1_Witness ==
    /\ IsCMCall
    /\ Len(call.y_true) = 2
    /\ Len(call.y_pred) = 1
    /\ out.exc = "ValueError"

\* C2: plot_array raises the ValueError of its array check exactly when array
\* is neither a list nor an np.ndarray.
C2_ArrayCheckAcceptsListsAndNdarrays ==
    call.fn = "plot_array"
        => ((out.exc = "ValueError" /\ out.msg = "array")
                <=> call.array.kind \notin {"list", "ndarray"})

\* C3: plot_array and plot_dict raise ValueError for a style_sheet that is
\* not available and for an unsupported line style, and such a call plots no
\* line.
C3_UnsupportedStyleRejected ==
    (IsPlotCall /\ (call.style_sheet \notin StyleAvailable \/ BadLineStyle))
        => /\ out.exc = "ValueError"
           /\ ~Made("plot")
           /\ fig.lines = pre.fig.lines

C3_Witness ==
    /\ call.fn = "plot_dict"
    /\ call.dict_arrays.kind = "dict"
    /\ call.style_sheet \in StyleAvailable
    /\ BadLineStyle
    /\ out = [exc |-> "ValueError", msg |-> "linestyle"]

\* C4: a call that raises leaves the active style sheet, the current figure
\* and the files as they were, and shows nothing.
C4_RejectedCallChangesNothing ==
    Raised => /\ style = pre.style
              /\ fig = pre.fig
              /\ files = pre.files
              /\ ~Made("show")

\* The number of samples with true label t and predicted label p.
Count(t, p) ==
    Cardinality({k \in 1..Len(call.y_true) : call.y_true[k] = t /\ call.y_pred[k] = p})

AllLabels == Range(call.y_true) \cup Range(call.y_pred)

\* The i-th label in ascending order.
NthLabel(i) == CHOOSE l \in AllLabels : Cardinality({m \in AllLabels : m < l}) = i - 1

RECURSIVE SumQuotients(_)
SumQuotients(row) ==
    IF row = <<>> THEN Quotient(0, 1)
    ELSE LET r == SumQuotients(Tail(row))
         IN  Quotient(Head(row).num * r.den + r.num * Head(row).den, Head(row).den * r.den)

SumsToOne(row) == LET q == SumQuotients(row) IN q.den # 0 /\ q.num = q.den

RowsSumToOne ==
    \A i \in 1..Len(ret) :
        /\ SumsToOne(ret[i])
        /\ \A j \in 1..Len(ret[i]) :
               ret[i][j] = Quotient(Count(NthLabel(i), NthLabel(j)),
                                    Cardinality({k \in 1..Len(call.y_true) :
                                                     call.y_true[k] = NthLabel(i)}))

\* C5 as stated: with normalize=True every row of the returned matrix sums
\* to 1, for all equal-length y_true and y_pred.
C5_RowsSumToOne ==
    (IsCMCall /\ out.exc = None /\ call.normalize) => RowsSumToOne

\* C5 as amended: with normalize=True every row of the returned matrix sums
\* to 1, entry [i][j] being the count for (i, j) over the sum of row i, when
\* every label of y_pred also occurs in y_true.
C5_RowsSumToOneWhenTrueHasAllLabels ==
    (IsCMCall /\ out.exc = None /\ call.normalize
       /\ Range(call.y_pred) \subseteq Range(call.y_true)) => RowsSumToOne

C5_Witness ==
    /\ IsCMCall
    /\ out.exc = None
    /\ call.normalize
    /\ call.y_true = <<0, 2, 2>>
    /\ call.y_pred = <<2, 2, 0>>
    /\ ret = << <<Quotient(0, 1), Quotient(1, 1)>>, <<Quotient(1, 2), Quotient(1, 2)>> >>

\* C6: with normalize=False the returned matrix has one row and one column
\* for each distinct label of y_true and y_pred, in ascending order; entry
\* [i][j] counts the samples with true label i and predicted label j; the
\* entries add up to len(y_true); the example gives [[2, 0], [1, 1]].
C6_CountMatrix ==
    (IsCMCall /\ out.exc = None /\ ~call.normalize)
        => /\ Len(ret) = Cardinality(AllLabels)
           /\ \A i \in 1..Len(ret) :
                  /\ Len(ret[i]) = Cardinality(AllLabels)
                  /\ \A j \in 1..Len(ret[i]) : ret[i][j] = Count(NthLabel(i), NthLabel(j))
           /\ SumSeq([i \in 1..Len(ret) |-> SumSeq(ret[i])]) = Len(call.y_true)
           /\ (call.y_true = ExampleTrue /\ call.y_pred = ExamplePred)
                  => ret = << <<2, 0>>, <<1, 1>> >>

C6_Witness ==
    /\ IsCMCall
    /\ out.exc = None
    /\ ~call.normalize
    /\ call.y_true = ExampleTrue
    /\ call.y_pred = ExamplePred
    /\ ret = << <<2, 0>>, <<1, 1>> >>

PlottedLines == [i \in 1..Len(Entries("plot")) |-> Entries("plot")[i].line]

\* C7: after successful calls only, the figure a plot_array or plot_dict
\* call leaves holds the lines of that call alone and has the default size
\* scaled once by that call's width and height.
C7_FigureDependsOnThisCallOnly ==
    (IsPlotCall /\ clean /\ fig.open)
        => /\ fig.lines = PlottedLines
           /\ fig.size = <<DefaultFigsize(style)[1] * call.width,
                           DefaultFigsize(style)[2] * call.height>>

\* The line styles and labels plot_dict is asked for, by position.
RequestedSeries ==
    [i \in 1..Len(call.dict_arrays.items) |->
        [linestyle |-> IF call.use_linestyles.none THEN "-" ELSE call.use_linestyles.list[i],
         label |-> call.dict_arrays.items[i].key]]

LinesAsRequested ==
    IF call.fn = "plot_array"
    THEN /\ Len(PlottedLines) = 1
         /\ PlottedLines[1].linestyle = call.use_linestyle
         /\ PlottedLines[1].label = call.use_label
         /\ PlottedLines[1].y = call.array.data
    ELSE /\ Len(PlottedLines) = Len(call.dict_arrays.items)
         /\ \A i \in 1..Len(PlottedLines) :
                /\ PlottedLines[i].linestyle = RequestedSeries[i].linestyle
                /\ PlottedLines[i].label = RequestedSeries[i].label
                /\ PlottedLines[i].y = call.dict_arrays.items[i].value.data

\* C8: a plot_array or plot_dict call that completes has plotted with the
\* caller's line styles and labels, has given use_title, use_xlabel,
\* use_ylabel and use_grid to title, xlabel, ylabel and grid, has saved
\* exactly when path is not None, to path with dpi=use_dpi, and has shown
\* the plot exactly when show_plot is True.
C8_OptionsPassedThrough ==
    (IsPlotCall /\ out.exc = None)
        => /\ LinesAsRequested
           /\ Entries("title") = <<[op |-> "title", text |-> call.use_title]>>
           /\ Entries("xlabel") = <<[op |-> "xlabel", text |-> call.use_xlabel]>>
           /\ Entries("ylabel") = <<[op |-> "ylabel", text |-> call.use_ylabel]>>
           /\ Entries("grid") = <<[op |-> "grid", on |-> call.use_grid]>>
           /\ Entries("savefig") =
                  IF call.path = None THEN <<>>
                  ELSE <<[op |-> "savefig", path |-> call.path, dpi |-> call.use_dpi]>>
           /\ call.path # None => [path |-> call.path, dpi |-> call.use_dpi] \in files
           /\ call.path = None => files = pre.files
           /\ Entries("show") = IF call.show_plot THEN <<[op |-> "show"]>> ELSE <<>>

C8_Witness ==
    /\ call.fn = "plot_dict"
    /\ out.exc = None
    /\ call.path = "a.png"
    /\ call.use_dpi = 100
    /\ ~call.show_plot
    /\ call.use_linestyles.list = <<"--", ":">>
    /\ Len(PlottedLines) = 2
    /\ [path |-> "a.png", dpi |-> 100] \in files

\* plot_dict's input validation lets the call through.
DictValidationPasses ==
    /\ call.dict_arrays.kind = "dict"
    /\ \A i \in 1..Len(call.dict_arrays.items) :
           /\ call.dict_arrays.items[i].keykind = "str"
           /\ call.dict_arrays.items[i].value.kind = "list"
    /\ call.style_sheet \in StyleAvailable
    /\ ~BadLineStyle

\* C9: a plot_dict call that fails has made no rendering call, and a call
\* that passes validation plots every series, in order, with its line style,
\* and completes.
C9_DictFailsOnlyInValidation ==
    call.fn = "plot_dict"
        => /\ Raised => (~Made("subplot") /\ ~Made("plot"))
           /\ DictValidationPasses => (out.exc = None /\ LinesAsRequested)

\* The tick labels and tick counts given to ax.set agree.
TickLabelsFit ==
    \A i \in 1..Len(log) :
        log[i].op = "set" => /\ Len(log[i].xticklabels) = log[i].xticks
                             /\ Len(log[i].yticklabels) = log[i].yticks
                             /\ log[i].xticks = Cardinality(AllLabels)

====
